---- MODULE Spec2Model ----
(***************************************************************************)
(* Transaction store of AppGestaoFinanceira: TransactionProvider           *)
(* (addTransaction with its installment and recurring expansion,           *)
(* deleteTransaction, the onSnapshot subscription) over a Firestore        *)
(* collection, and the transaction form of DashboardShell that feeds it.   *)
(***************************************************************************)
EXTENDS Integers, Naturals, Sequences, FiniteSets, TLC

(***************************************************************************)
(* JavaScript numbers.  An amount is an IEEE-754 binary64 value.  A        *)
(* non-negative value x is held exactly as the natural number x * 2^72,    *)
(* written in NLimbs limbs of LimbBits bits, least significant limb first  *)
(* (TLC's integers have 32 bits).  Every arithmetic operator computes the  *)
(* exact result and then rounds it to 53 significant bits, ties to even,   *)
(* as the hardware does.                                                   *)
(***************************************************************************)
RECURSIVE Pow2(_)
Pow2(n) == IF n = 0 THEN 1 ELSE 2 * Pow2(n - 1)

LimbBits == 24

NLimbs == 4

Precision == 53

Base == Pow2(LimbBits)

FracBits == (NLimbs - 1) * LimbBits

Limbs == 1..NLimbs

BigZero == [i \in Limbs |-> 0]

\* the integer n (0 <= n < Base) as a number: n * 2^FracBits
IntToBig(n) == [i \in Limbs |-> IF i = NLimbs THEN n ELSE 0]

RECURSIVE BigAddFrom(_, _, _, _)
BigAddFrom(a, b, i, carry) ==
    IF i > NLimbs THEN <<>>
    ELSE LET s == a[i] + b[i] + carry
         IN  <<s % Base>> \o BigAddFrom(a, b, i + 1, s \div Base)

BigAdd(a, b) == BigAddFrom(a, b, 1, 0)

RECURSIVE BigSubFrom(_, _, _, _)
BigSubFrom(a, b, i, borrow) ==
    IF i > NLimbs THEN <<>>
    ELSE LET s == a[i] - b[i] - borrow
         IN  IF s < 0 THEN <<s + Base>> \o BigSubFrom(a, b, i + 1, 1)
                      ELSE <<s>> \o BigSubFrom(a, b, i + 1, 0)

\* a - b for a >= b
BigSub(a, b) == BigSubFrom(a, b, 1, 0)

RECURSIVE BigCmpFrom(_, _, _)
BigCmpFrom(a, b, i) ==
    IF i = 0 THEN 0
    ELSE IF a[i] > b[i] THEN 1
    ELSE IF a[i] < b[i] THEN -1
    ELSE BigCmpFrom(a, b, i - 1)

\* -1, 0, 1 as a < b, a = b, a > b
BigCmp(a, b) == BigCmpFrom(a, b, NLimbs)

RECURSIVE BigMulSmallFrom(_, _, _, _)
BigMulSmallFrom(a, k, i, carry) ==
    IF i > NLimbs THEN <<>>
    ELSE LET p == a[i] * k + carry
         IN  <<p % Base>> \o BigMulSmallFrom(a, k, i + 1, p \div Base)

\* a * k, exactly, for a small integer k (k < 128)
BigMulSmall(a, k) == BigMulSmallFrom(a, k, 1, 0)

RECURSIVE BigDivSmallFrom(_, _, _, _)
BigDivSmallFrom(a, q, i, rem) ==
    IF i = 0 THEN [quot |-> <<>>, rem |-> rem]
    ELSE LET cur  == rem * Base + a[i]
             rest == BigDivSmallFrom(a, q, i - 1, cur % q)
         IN  [quot |-> rest.quot \o <<cur \div q>>, rem |-> rest.rem]

\* a \div q and a % q for a small integer q (q < 128)
BigDivSmall(a, q) == BigDivSmallFrom(a, q, NLimbs, 0)

RECURSIVE IntBitLen(_)
IntBitLen(n) == IF n = 0 THEN 0 ELSE 1 + IntBitLen(n \div 2)

RECURSIVE BigBitLenFrom(_, _)
BigBitLenFrom(a, i) ==
    IF i = 0 THEN 0
    ELSE IF a[i] # 0 THEN (i - 1) * LimbBits + IntBitLen(a[i])
    ELSE BigBitLenFrom(a, i - 1)

\* number of significant bits of a
BigBitLen(a) == BigBitLenFrom(a, NLimbs)

\* 2^k as a limb number
BigPow2(k) ==
    [i \in Limbs |-> IF (i - 1) = k \div LimbBits THEN Pow2(k % LimbBits) ELSE 0]

\* a % 2^k
BigModPow2(a, k) ==
    [i \in Limbs |->
        IF i * LimbBits <= k THEN a[i]
        ELSE IF (i - 1) * LimbBits >= k THEN 0
        ELSE a[i] % Pow2(k - (i - 1) * LimbBits)]

\* bit k of a
BigBit(a, k) == (a[(k \div LimbBits) + 1] \div Pow2(k % LimbBits)) % 2

\* round-to-nearest, ties-to-even, to Precision significant bits; sticky says
\* that the exact value lies strictly above a
RoundNearestEven(a, sticky) ==
    LET len == BigBitLen(a)
    IN  IF len <= Precision THEN a
        ELSE LET k     == len - Precision
                 low   == BigModPow2(a, k)
                 trunc == BigSub(a, low)
                 cmp   == BigCmp(low, BigPow2(k - 1))
                 up    == \/ cmp = 1
                          \/ cmp = 0 /\ (sticky \/ BigBit(a, k) = 1)
             IN  IF up THEN BigAdd(trunc, BigPow2(k)) ELSE trunc

\* x / q
NumDiv(x, q) ==
    LET d == BigDivSmall(x, q) IN RoundNearestEven(d.quot, d.rem # 0)

\* x * k
NumMul(x, k) == RoundNearestEven(BigMulSmall(x, k), FALSE)

\* x + y
NumAdd(x, y) ==
    IF x = BigZero THEN y
    ELSE IF y = BigZero THEN x
    ELSE RoundNearestEven(BigAdd(x, y), FALSE)

\* |x - y|
NumAbsDiff(x, y) ==
    IF BigCmp(x, y) >= 0 THEN RoundNearestEven(BigSub(x, y), FALSE)
                         ELSE RoundNearestEven(BigSub(y, x), FALSE)

\* Math.floor(x) for x >= 0
MathFloor(x) == [i \in Limbs |-> IF i = NLimbs THEN x[i] ELSE 0]

\* the number a decimal string with two places denotes: cents / 100
NumberOfCents(cents) == NumDiv(IntToBig(cents), 100)

\* x in cents, rounded to the nearest cent: round(x * 100)
CentsOf(x) ==
    LET p    == BigMulSmall(x, 100)
        frac == BigModPow2(p, FracBits)
    IN  p[NLimbs] + (IF BigCmp(frac, BigPow2(FracBits - 1)) >= 0 THEN 1 ELSE 0)

(***************************************************************************)
(* Dates.  A Date is a calendar day with a time of day, in the local       *)
(* zone: y the year, m the month as getMonth() returns it (0 = January),   *)
(* d the day of the month and t the time of day (0 = midnight).  The form  *)
(* starts from new Date() (now) and the calendar widgets return midnight.  *)
(***************************************************************************)
IsLeapYear(y) == (y % 4 = 0 /\ y % 100 # 0) \/ y % 400 = 0

DaysInMonth(y, m) ==
    IF m = 1 THEN (IF IsLeapYear(y) THEN 29 ELSE 28)
    ELSE IF m \in {3, 5, 8, 10} THEN 30
    ELSE 31

\* a < b on the instants the dates denote
DateLT(a, b) ==
    \/ a.y < b.y
    \/ a.y = b.y /\ a.m < b.m
    \/ a.y = b.y /\ a.m = b.m /\ a.d < b.d
    \/ a.y = b.y /\ a.m = b.m /\ a.d = b.d /\ a.t < b.t

DateLE(a, b) == a = b \/ DateLT(a, b)

\* date-fns addMonths: the day of the month is kept unless the desired month
\* is shorter, and then the last day of that month is taken
AddMonths(date, amount) ==
    IF amount = 0 THEN date
    ELSE LET dayOfMonth  == date.d
             total       == date.y * 12 + date.m + amount
             endY        == total \div 12
             endM        == total % 12
             daysInMonth == DaysInMonth(endY, endM)
         IN  IF dayOfMonth >= daysInMonth
             THEN [y |-> endY, m |-> endM, d |-> daysInMonth, t |-> date.t]
             ELSE [y |-> endY, m |-> endM, d |-> dayOfMonth, t |-> date.t]

\* Date.prototype.toISOString: the text <<year, month 1..12, day, time>>
ToISOString(date) == <<date.y, date.m + 1, date.d, date.t>>

\* new Date(isoString)
NewDate(iso) == [y |-> iso[1], m |-> iso[2] - 1, d |-> iso[3], t |-> iso[4]]

(***************************************************************************)
(* Form values and the transaction schema                                  *)
(***************************************************************************)
\* a field whose value is undefined
Undefined == "undefined"

\* recurringEndDate when it is undefined
UndefinedDate == [y |-> 0, m |-> 0, d |-> 0, t |-> 0]

\* a signed JavaScript number
Num(neg, mag) == [neg |-> neg, mag |-> mag]

\* Math.abs(x)
MathAbs(x) == Num(FALSE, x.mag)

\* -x
Negate(x) == Num(~x.neg, x.mag)

\* zod transactionSchema: the values the form lets through to onSubmit
transactionSchema(values) ==
    /\ values.description # ""
    /\ ~values.amount.neg /\ values.amount.mag # BigZero
    /\ values.type \in {"income", "expense"}
    /\ values.category # ""
    /\ values.paymentMethod \in {"pix_debit", "creditCard", Undefined}
    /\ values.installments >= 1
    /\ ~(values.type = "expense" /\ values.paymentMethod = Undefined)
    /\ ~(values.paymentMethod = "creditCard" /\ values.creditCardId = Undefined)
    /\ ~(values.type = "expense" /\ values.isRecurring
            /\ values.recurringEndDate = UndefinedDate)
    /\ ~(values.isRecurring /\ values.recurringEndDate # UndefinedDate
            /\ DateLE(values.recurringEndDate, values.date))

(***************************************************************************)
(* addTransaction: the expansion of one submission into the list of        *)
(* transactions it writes                                                  *)
(***************************************************************************)
\* the amount negated whatever the type
SignedAmountNegated(values) == Negate(MathAbs(values.amount))

\* const amount = values.type === 'expense' ? -Math.abs(..) : Math.abs(..)
SignedAmount(values) ==
    IF values.type = "expense" THEN Negate(MathAbs(values.amount))
                               ELSE MathAbs(values.amount)

IsRecurringBranch(values) ==
    values.type = "expense" /\ values.isRecurring
        /\ values.recurringEndDate # UndefinedDate

IsInstallmentsBranch(values) ==
    /\ ~IsRecurringBranch(values)
    /\ values.type = "expense" /\ values.installments > 1

\* the loop condition comparing months only, so that the month of endDate
\* counts whatever its day
LoopConditionByMonth(currentDate, endDate) ==
    currentDate.y * 12 + currentDate.m <= endDate.y * 12 + endDate.m

\* addMonths(currentDate, 1) with its result dropped: currentDate stays
LoopAdvanceDropped(currentDate) == AddMonths(currentDate, 0)

\* let currentDate = startDate
RecurringStart(values) == values.date

\* while (currentDate <= endDate)
LoopCondition(currentDate, endDate) == DateLE(currentDate, endDate)

\* currentDate = addMonths(currentDate, 1)
LoopAdvance(currentDate) == AddMonths(currentDate, 1)

RecurringTransaction(values, groupId, currentDate, i) ==
    [description   |-> <<values.description, "(Recorrente)">>,
     amount        |-> Negate(MathAbs(values.amount)),
     type          |-> values.type,
     category      |-> values.category,
     date          |-> ToISOString(currentDate),
     paymentMethod |-> "cash",
     groupId       |-> groupId,
     isOriginal    |-> (i = 0)]

\* the transactions pushed by the next passes of the loop, n of them at most
RECURSIVE RecurringPasses(_, _, _, _, _)
RecurringPasses(values, groupId, currentDate, i, n) ==
    IF n > 0 /\ LoopCondition(currentDate, values.recurringEndDate)
    THEN <<RecurringTransaction(values, groupId, currentDate, i)>>
            \o RecurringPasses(values, groupId, LoopAdvance(currentDate), i + 1, n - 1)
    ELSE <<>>

\* currentDate after n passes of the loop
RECURSIVE DateAfterPasses(_, _)
DateAfterPasses(currentDate, n) ==
    IF n = 0 THEN currentDate ELSE DateAfterPasses(LoopAdvance(currentDate), n - 1)

\* the while loop from currentDate and i on, followed a year of passes at a
\* time: the list it pushes
RECURSIVE RecurringLoop(_, _, _, _)
RecurringLoop(values, groupId, currentDate, i) ==
    LET passes == RecurringPasses(values, groupId, currentDate, i, 12)
    IN  IF Len(passes) < 12 THEN passes
        ELSE passes \o RecurringLoop(values, groupId,
                                     DateAfterPasses(currentDate, 12), i + 12)

\* Math.floor((totalAmount / numInstallments) * 100) / 100
InstallmentAmount(totalAmount, numInstallments) ==
    Num(totalAmount.neg,
        NumDiv(MathFloor(NumMul(NumDiv(totalAmount.mag, numInstallments), 100)), 100))

\* accumulatedAmount after i passes of accumulatedAmount += installmentAmount
RECURSIVE AccumulatedAmount(_, _)
AccumulatedAmount(installmentAmount, i) ==
    IF i = 0 THEN BigZero
    ELSE NumAdd(AccumulatedAmount(installmentAmount, i - 1), installmentAmount.mag)

\* totalAmount - accumulatedAmount
LastInstallmentAmount(totalAmount, accumulatedAmount) ==
    Num(BigCmp(totalAmount.mag, accumulatedAmount) < 0,
        NumAbsDiff(totalAmount.mag, accumulatedAmount))

\* every installment the rounded-down share, the last one not adjusted
CurrentInstallmentAmountUnadjusted(totalAmount, numInstallments, i) ==
    InstallmentAmount(totalAmount, numInstallments)

CurrentInstallmentAmount(totalAmount, numInstallments, i) ==
    LET installmentAmount == InstallmentAmount(totalAmount, numInstallments)
    IN  IF i = numInstallments - 1
        THEN LastInstallmentAmount(totalAmount,
                AccumulatedAmount(installmentAmount, numInstallments - 1))
        ELSE installmentAmount

\* the installment date stepped month by month from the previous one
RECURSIVE InstallmentDateStepped(_, _)
InstallmentDateStepped(values, i) ==
    IF i = 0 THEN values.date
    ELSE AddMonths(InstallmentDateStepped(values, i - 1), 1)

\* const installmentDate = addMonths(values.date, i)
InstallmentDate(values, i) == AddMonths(values.date, i)

InstallmentTransaction(values, groupId, i) ==
    [description   |-> <<values.description, i + 1, values.installments>>,
     amount        |-> Negate(MathAbs(
                          CurrentInstallmentAmount(values.amount, values.installments, i))),
     type          |-> values.type,
     category      |-> values.category,
     date          |-> ToISOString(InstallmentDate(values, i)),
     paymentMethod |-> values.paymentMethod,
     creditCardId  |-> values.creditCardId,
     groupId       |-> groupId,
     isOriginal    |-> (i = 0)]

InstallmentsLoop(values, groupId) ==
    [k \in 1..values.installments |-> InstallmentTransaction(values, groupId, k - 1)]

SingleTransaction(values) ==
    [description   |-> <<values.description>>,
     amount        |-> SignedAmount(values),
     type          |-> values.type,
     category      |-> values.category,
     date          |-> ToISOString(values.date),
     paymentMethod |-> values.paymentMethod,
     creditCardId  |-> values.creditCardId]

\* newTransactionsList as addTransaction has filled it before the batch
NewTransactionsList(values, groupId) ==
    IF IsRecurringBranch(values)
    THEN RecurringLoop(values, groupId, RecurringStart(values), 0)
    ELSE IF IsInstallmentsBranch(values)
    THEN InstallmentsLoop(values, groupId)
    ELSE <<SingleTransaction(values)>>

\* Object.fromEntries(Object.entries(o).filter(([_, v]) => v !== undefined))
OmitUndefined(o) ==
    [k \in {j \in DOMAIN o :
              ~(j \in {"paymentMethod", "creditCardId", "groupId"} /\ o[j] = Undefined)}
        |-> o[k]]

\* { ...dataToSave, date: new Date(transaction.date) }
DataWithTimestamp(transaction) ==
    [k \in DOMAIN OmitUndefined(transaction) |->
        IF k = "date" THEN NewDate(transaction.date) ELSE transaction[k]]

(***************************************************************************)
(* State                                                                   *)
(***************************************************************************)
VARIABLES
    user,          \* useAuth().user is set
    store,         \* the Firestore collection users/{uid}/transactions: id -> data
    transactions,  \* the provider's React state: the last snapshot delivered
    calls,         \* the addTransaction calls made so far, in flight or ended
    deleted,       \* ids deleteTransaction has removed
    loop,          \* the recurring loop of one call, taken one iteration at a time
    categories,    \* the Firestore collection users/{uid}/categories: id -> data
    ops,           \* the update and category calls: how many were started,
                   \* the ones in flight, the last one ended
    ui,            \* the React state of the shell on screen: its dialogs, the
                   \* transaction being edited, the values of the form
    futureStore,   \* the Firestore collection users/{uid}/futureExpenses
    futureExpenses,\* the future-expense provider's React state
    cardStore,     \* the Firestore collection users/{uid}/creditCards
    creditCards    \* the credit-card provider's React state

vars ==
    <<user, store, transactions, calls, deleted, loop, categories, ops, ui,
      futureStore, futureExpenses, cardStore, creditCards>>

\* most addTransaction calls of a run
MaxCalls == 2

\* most deleteTransaction calls of a run
MaxDeletes == 1

\* largest amount of the amount runs, in cents
MaxCents == 60

\* most iterations the stepwise loop is followed for
MaxIter == 30

\* most updateTransaction, updateTransactionGroup and deleteCategory calls of a run
MaxOps == 2


\* no call started, none in flight, none ended
NoOps ==
    [started |-> 0, pending |-> {},
     last |-> [n |-> 0, kind |-> "none", target |-> 0, seen |-> {}, status |-> "none"]]

\* editingTransaction when it is null
NoTransaction == [id |-> 0]

\* new Date() when the form is reset
Now == [y |-> 2024, m |-> 0, d |-> 31, t |-> 1]

\* the values handleDialogChange(false) resets the form to
DefaultValues ==
    [description |-> "", amount |-> Num(FALSE, BigZero), type |-> "expense",
     category |-> "", date |-> Now, paymentMethod |-> "pix_debit",
     creditCardId |-> Undefined, installments |-> 1, isRecurring |-> FALSE,
     recurringEndDate |-> UndefinedDate]

\* transactionDefaults when nothing was marked as paid: no field overridden
NoDefaults == [description |-> "", amount |-> Num(FALSE, BigZero), type |-> "expense"]

\* the shell with no dialog open; confirming holds the numbers of the group
\* updates that calls of handleConfirmGroupEdit are awaiting
ClosedShell ==
    [isDialogOpen |-> FALSE, editingTransaction |-> NoTransaction,
     isGroupEditDialogOpen |-> FALSE, form |-> DefaultValues, confirming |-> {},
     isTransactionModalOpen |-> FALSE, transactionDefaults |-> NoDefaults]

\* a call started: its number, and what it is to do
Started(kind, target, values, seen) ==
    [n |-> ops.started + 1, kind |-> kind, target |-> target, values |-> values,
     seen |-> seen]

\* a call ended: how
Ended(op, status) ==
    [n |-> op.n, kind |-> op.kind, target |-> op.target, seen |-> op.seen,
     status |-> status]

\* if (!user): no user is signed in
SignedOutNever(u) == FALSE

SignedOut(u) == ~u

LoopIdle ==
    [pc |-> "idle", endDate |-> UndefinedDate, currentDate |-> UndefinedDate,
     i |-> 0, dates |-> <<>>]

RECURSIVE SumLen(_, _)
SumLen(cs, n) == IF n = 0 THEN 0 ELSE Len(cs[n].ids) + SumLen(cs, n - 1)

\* doc(transactionsCollection): a document id no document has had
NextDocId == 1 + SumLen(calls, Len(calls))

\* one group id for every call
FixedGroupId == "g1"

\* doc(collection(db, 'users')).id: an id no group has had
FreshGroupId == "g" \o ToString(Len(calls) + 1)

Ids(seq) == {seq[k] : k \in 1..Len(seq)}

\* the documents a query snapshot holds, ordered by date descending
RECURSIVE OrderByDateDesc(_)
OrderByDateDesc(S) ==
    IF S = {} THEN <<>>
    ELSE LET first == CHOOSE a \in S : \A b \in S :
                          \/ DateLT(store[b].date, store[a].date)
                          \/ store[b].date = store[a].date /\ b <= a
         IN  <<first>> \o OrderByDateDesc(S \ {first})

\* onSnapshot's callback: { id: doc.id, ...data, date: toDate().toISOString() }
SnapshotDoc(id) ==
    [k \in DOMAIN store[id] \cup {"id"} |->
        IF k = "id" THEN id
        ELSE IF k = "date" THEN ToISOString(store[id].date)
        ELSE store[id][k]]

QuerySnapshot ==
    LET order == OrderByDateDesc(DOMAIN store)
    IN  [k \in 1..Len(order) |-> SnapshotDoc(order[k])]

Init ==
    /\ user = TRUE
    /\ store = <<>>
    /\ transactions = <<>>
    /\ calls = <<>>
    /\ deleted = {}
    /\ loop = LoopIdle
    /\ categories = <<>>
    /\ ops = NoOps
    /\ ui = ClosedShell
    /\ futureStore = <<>>
    /\ futureExpenses = {}
    /\ cardStore = <<>>
    /\ creditCards = {}

(***************************************************************************)
(* Actions                                                                 *)
(***************************************************************************)
\* addTransaction up to its await: the list, the toast, the batch
AddTransaction(values) ==
    /\ IF ~user
       THEN calls' = Append(calls,
                [values |-> values, groupId |-> Undefined, list |-> <<>>,
                 ids |-> <<>>, status |-> "unauthenticated",
                 toasts |-> <<"Erro de Autenticacao">>])
       ELSE LET groupId == FreshGroupId
                list    == NewTransactionsList(values, groupId)
                title   == IF IsRecurringBranch(values)
                               THEN "Despesa recorrente adicionada!"
                           ELSE IF IsInstallmentsBranch(values)
                               THEN "Parcelas adicionadas!"
                           ELSE "Transacao adicionada!"
            IN  calls' = Append(calls,
                    [values |-> values, groupId |-> groupId, list |-> list,
                     ids |-> [k \in 1..Len(list) |-> NextDocId + k - 1],
                     status |-> "pending", toasts |-> <<title>>])
    /\ UNCHANGED <<user, store, transactions, deleted, loop, categories, ops,
                 futureStore, futureExpenses, cardStore, creditCards>>

\* the documents written one by one, the writes after the first one lost
BatchWritesFirstOnly(call) ==
    [id \in {call.ids[k] : k \in 1..(IF Len(call.ids) = 0 THEN 0 ELSE 1)} |->
        DataWithTimestamp(call.list[1])]

\* the documents a batch sets: id -> data
BatchWrites(call) ==
    [id \in Ids(call.ids) |->
        DataWithTimestamp(call.list[CHOOSE k \in 1..Len(call.ids) : call.ids[k] = id])]

\* await batch.commit() resolves: every set of the batch is applied at once
BatchCommit(c) ==
    /\ calls[c].status = "pending"
    /\ store' = BatchWrites(calls[c]) @@ store
    /\ calls' = [calls EXCEPT ![c].status = "committed"]
    /\ UNCHANGED <<user, transactions, deleted, loop, categories, ops, ui,
                 futureStore, futureExpenses, cardStore, creditCards>>

\* await batch.commit() rejects: the catch block
BatchFail(c) ==
    /\ calls[c].status = "pending"
    /\ calls' = [calls EXCEPT ![c].status = "failed",
                              ![c].toasts = Append(@, "Erro ao salvar")]
    /\ UNCHANGED <<user, store, transactions, deleted, loop, categories, ops, ui,
                 futureStore, futureExpenses, cardStore, creditCards>>

\* a delete that takes the other documents of the group with it
DeleteDocCascading(s, id) ==
    [j \in {i \in DOMAIN s \ {id} :
                ~(/\ id \in DOMAIN s
                  /\ "groupId" \in DOMAIN s[id]
                  /\ "groupId" \in DOMAIN s[i]
                  /\ s[i].groupId = s[id].groupId)} |-> s[j]]

\* deleteDoc(transactionDocRef): the collection without that document
DeleteDoc(s, id) == [j \in DOMAIN s \ {id} |-> s[j]]

\* deleteTransaction(id), from confirmDelete on a listed row; without a user
\* it returns at once
DeleteTransaction(id) ==
    IF SignedOut(user)
    THEN /\ ops.started < MaxOps
         /\ LET op == Started("deleteTransaction", id, <<>>, {id})
            IN  ops' = [ops EXCEPT !.started = op.n, !.last = Ended(op, "returned")]
         /\ UNCHANGED <<user, store, transactions, calls, deleted, loop, categories, ui,
                      futureStore, futureExpenses, cardStore, creditCards>>
    ELSE /\ Cardinality(deleted) < MaxDeletes
         /\ store' = DeleteDoc(store, id)
         /\ deleted' = deleted \cup {id}
         /\ UNCHANGED <<user, transactions, calls, loop, categories, ops, ui,
                      futureStore, futureExpenses, cardStore, creditCards>>

\* the onSnapshot listener delivers the collection as it is
OnSnapshot ==
    /\ user
    /\ transactions # QuerySnapshot
    /\ transactions' = QuerySnapshot
    /\ UNCHANGED <<user, store, calls, deleted, loop, categories, ops, ui,
                 futureStore, futureExpenses, cardStore, creditCards>>

\* the auth state changes; without a user the effect empties the list
Logout ==
    /\ user
    /\ user' = FALSE
    /\ transactions' = <<>>
    /\ futureExpenses' = {}
    /\ creditCards' = {}
    /\ UNCHANGED <<store, calls, deleted, loop, categories, ops, ui,
                 futureStore, cardStore>>

Login ==
    /\ ~user
    /\ user' = TRUE
    /\ UNCHANGED <<store, transactions, calls, deleted, loop, categories, ops, ui,
                 futureStore, futureExpenses, cardStore, creditCards>>

(***************************************************************************)
(* Categories                                                              *)
(***************************************************************************)
\* the ids of defaultCategories
DefaultCategoryIds ==
    {"moradia", "alimentacao", "transporte", "lazer", "saude", "compras",
     "salario", "recorrente", "outros"}

\* defaultCategories.find(c => c.id === 'outros')
OtherCategory == CHOOSE c \in DefaultCategoryIds : c = "outros"

\* allCategories: the default categories and the stored custom ones
AllCategories == DefaultCategoryIds \cup DOMAIN categories

(***************************************************************************)
(* updateTransaction                                                       *)
(***************************************************************************)
\* the amount left as the form holds it, whatever the type
UpdateAmountAsTyped(values) == values.amount

\* const amount = values.type === 'expense' ? -Math.abs(..) : Math.abs(..)
UpdateAmount(values) ==
    IF values.type = "expense" THEN Negate(MathAbs(values.amount))
                               ELSE MathAbs(values.amount)

\* dataToUpdate of updateTransaction, after its income and cash branches
DataToUpdate(values) ==
    LET dataToUpdate ==
            [description   |-> <<values.description>>,
             amount        |-> UpdateAmount(values),
             type          |-> values.type,
             category      |-> values.category,
             date          |-> values.date,
             paymentMethod |-> values.paymentMethod,
             creditCardId  |-> values.creditCardId,
             groupId       |-> values.groupId]
    IN  IF values.type = "income"
        THEN [dataToUpdate EXCEPT !.paymentMethod = Undefined,
                                  !.creditCardId = Undefined]
        ELSE IF values.paymentMethod = "cash"
        THEN [dataToUpdate EXCEPT !.creditCardId = Undefined]
        ELSE dataToUpdate

\* a write that replaces the document by the given fields
UpdateDocReplacing(s, id, data) == [s EXCEPT ![id] = data]

\* updateDoc(ref, data): the given fields are set, every other field is kept
UpdateDoc(s, id, data) == [s EXCEPT ![id] = data @@ s[id]]

\* updateTransaction(id, values): without a user it returns at once;
\* updateDoc resolves when the document exists, and rejects into the catch
\* block otherwise or when the write fails
UpdateTransaction(id, values) ==
    /\ ops.started < MaxOps
    /\ LET op == Started("updateTransaction", id, values, {id})
       IN  IF SignedOut(user)
           THEN /\ store' = store
                /\ ops' = [ops EXCEPT !.started = op.n, !.last = Ended(op, "returned")]
           ELSE \/ /\ id \in DOMAIN store
                   /\ store' = UpdateDoc(store, id, OmitUndefined(DataToUpdate(values)))
                   /\ ops' = [ops EXCEPT !.started = op.n,
                                         !.last = Ended(op, "committed")]
                \/ /\ store' = store
                   /\ ops' = [ops EXCEPT !.started = op.n, !.last = Ended(op, "failed")]
    /\ UNCHANGED <<user, transactions, calls, deleted, loop, categories,
                 futureStore, futureExpenses, cardStore, creditCards>>

(***************************************************************************)
(* updateTransactionGroup                                                  *)
(***************************************************************************)
\* getDocs(query(transactionsRef, where('groupId', '==', groupId)))
GroupQuery(groupId) ==
    {id \in DOMAIN store : "groupId" \in DOMAIN store[id] /\ store[id].groupId = groupId}

\* dataToUpdate of updateTransactionGroup, after its cash branch
GroupDataToUpdate(values) ==
    LET dataToUpdate ==
            [category      |-> values.category,
             paymentMethod |-> values.paymentMethod,
             creditCardId  |-> values.creditCardId]
    IN  IF values.paymentMethod = "cash"
        THEN [dataToUpdate EXCEPT !.creditCardId = Undefined]
        ELSE dataToUpdate

\* the fields written to every document of the collection
BatchUpdatesWholeCollection(s, ids, data) == [id \in DOMAIN s |-> data @@ s[id]]

\* a batch of updates of the documents ids, committed: every one applied
BatchUpdates(s, ids, data) ==
    [id \in DOMAIN s |-> IF id \in ids THEN data @@ s[id] ELSE s[id]]

\* the batch commits whether or not its documents exist
BatchCanCommitAlways(s, ids) == TRUE

\* batch.update needs its document to exist: one missing fails the batch
BatchCanCommit(s, ids) == ids \subseteq DOMAIN s

\* updateTransactionGroup(groupId, values) up to the snapshot of getDocs;
\* without a user it returns at once
UpdateTransactionGroup(groupId, values) ==
    /\ ops.started < MaxOps
    /\ LET op == Started("updateTransactionGroup", groupId, values, GroupQuery(groupId))
       IN  IF SignedOut(user)
           THEN ops' = [ops EXCEPT !.started = op.n,
                                   !.last = Ended([op EXCEPT !.seen = {}], "returned")]
           ELSE ops' = [ops EXCEPT !.started = op.n, !.pending = @ \cup {op}]
    /\ UNCHANGED <<user, store, transactions, calls, deleted, loop, categories,
                 futureStore, futureExpenses, cardStore, creditCards>>

\* await batch.commit() of updateTransactionGroup resolves
GroupBatchCommit(op) ==
    /\ op.kind = "updateTransactionGroup"
    /\ BatchCanCommit(store, op.seen)
    /\ store' = BatchUpdates(store, op.seen, OmitUndefined(GroupDataToUpdate(op.values)))
    /\ ops' = [ops EXCEPT !.pending = @ \ {op}, !.last = Ended(op, "committed")]
    /\ UNCHANGED <<user, transactions, calls, deleted, loop, categories,
                 futureStore, futureExpenses, cardStore, creditCards>>

\* getDocs or batch.commit() of updateTransactionGroup rejects: the catch block
GroupBatchFail(op) ==
    /\ op.kind = "updateTransactionGroup"
    /\ ops' = [ops EXCEPT !.pending = @ \ {op}, !.last = Ended(op, "failed")]
    /\ UNCHANGED <<user, store, transactions, calls, deleted, loop, categories,
                 futureStore, futureExpenses, cardStore, creditCards>>

(***************************************************************************)
(* deleteCategory                                                          *)
(***************************************************************************)
\* getDocs(query(transactionsRef, where('category', '==', id)))
CategoryQuery(id) == {j \in DOMAIN store : store[j].category = id}

\* the category document left where it is
BatchDeleteDropped(c, id) == c

\* batch.delete(categoryDocRef)
BatchDelete(c, id) == [j \in DOMAIN c \ {id} |-> c[j]]

\* deleteCategory(id) up to the snapshot of getDocs
DeleteCategory(id) ==
    /\ user
    /\ ops.started < MaxOps
    /\ OtherCategory \in DefaultCategoryIds
    /\ LET op == Started("deleteCategory", id, [category |-> OtherCategory],
                         CategoryQuery(id))
       IN  ops' = [ops EXCEPT !.started = op.n, !.pending = @ \cup {op}]
    /\ UNCHANGED <<user, store, transactions, calls, deleted, loop, categories, ui,
                 futureStore, futureExpenses, cardStore, creditCards>>

\* await batch.commit() of deleteCategory resolves: the updates and the delete
CategoryBatchCommit(op) ==
    /\ op.kind = "deleteCategory"
    /\ BatchCanCommit(store, op.seen)
    /\ store' = BatchUpdates(store, op.seen, op.values)
    /\ categories' = BatchDelete(categories, op.target)
    /\ ops' = [ops EXCEPT !.pending = @ \ {op}, !.last = Ended(op, "committed")]
    /\ UNCHANGED <<user, transactions, calls, deleted, loop, ui,
                 futureStore, futureExpenses, cardStore, creditCards>>

\* getDocs or batch.commit() of deleteCategory rejects: the catch block
CategoryBatchFail(op) ==
    /\ op.kind = "deleteCategory"
    /\ ops' = [ops EXCEPT !.pending = @ \ {op}, !.last = Ended(op, "failed")]
    /\ UNCHANGED <<user, store, transactions, calls, deleted, loop, categories, ui,
                 futureStore, futureExpenses, cardStore, creditCards>>

(***************************************************************************)
(* Inputs                                                                  *)
(***************************************************************************)
Day(y, m, d, t) == [y |-> y, m |-> m, d |-> d, t |-> t]

\* form values: amount in cents as typed, type, date, paymentMethod,
\* creditCardId, installments, isRecurring, recurringEndDate
Values(cents, type, date, method, card, count, recurring, endDate) ==
    [description |-> "compra", amount |-> Num(FALSE, NumberOfCents(cents)),
     type |-> type, category |-> "outros", date |-> date,
     paymentMethod |-> method, creditCardId |-> card,
     installments |-> count, isRecurring |-> recurring,
     recurringEndDate |-> endDate]

\* the values of the general runs: every branch of addTransaction, and values
\* the schema turns away
FormValues ==
    LET d1 == Day(2024, 0, 31, 1)
    IN  { Values(100, "expense", d1, "pix_debit", Undefined, 1, FALSE, UndefinedDate),
          Values(100, "expense", d1, "creditCard", "card1", 3, FALSE, UndefinedDate),
          Values(100, "expense", d1, "pix_debit", Undefined, 1, TRUE, Day(2024, 2, 30, 0)),
          Values(100, "expense", d1, "pix_debit", Undefined, 1, TRUE, Day(2024, 0, 1, 0)),
          Values(100, "expense", d1, "pix_debit", Undefined, 0, FALSE, UndefinedDate),
          Values(100, "expense", d1, "creditCard", Undefined, 1, FALSE, UndefinedDate),
          Values(100, "expense", d1, Undefined, Undefined, 1, FALSE, UndefinedDate),
          Values(20, "income", d1, Undefined, Undefined, 1, FALSE, UndefinedDate),
          Values(20, "income", d1, Undefined, Undefined, 3, TRUE, Day(2024, 2, 30, 0)) }

\* the installment counts of the amount and date runs
Counts == {1, 2, 3, 7, 12}

\* the values of the amount runs: every total up to MaxCents in every count
AmountValues ==
    { Values(c, "expense", Day(2024, 0, 15, 0), "creditCard", "card1", n, FALSE,
             UndefinedDate) : c \in 1..MaxCents, n \in Counts }

\* the dates of the date runs: the ends of short and long months, a leap
\* and a common February, a year's end
StartDates ==
    { Day(y, m, d, t) : y \in {2023, 2024}, m \in {0, 1, 10, 11},
                        d \in {1, 15, 28, 29, 30, 31}, t \in {0, 1} }
        \cap { x \in [y : {2023, 2024}, m : 0..11, d : 1..31, t : {0, 1}] :
                    x.d <= DaysInMonth(x.y, x.m) }

EndDates ==
    { Day(y, m, d, 0) : y \in {2024}, m \in {1, 2, 3}, d \in {1, 28, 29, 30} }
        \cup { Day(2025, 0, 31, 0), Day(2023, 5, 15, 0) }

\* start dates and end dates the calendars offer, every end date more than
\* fifty years after every start date
HorizonStartDates == { Day(2024, m, 15, 0) : m \in 0..5 }

FarEndDates == { Day(2074, m, 15, 0) : m \in 6..11 }

\* the values of the horizon runs: recurring expenses over those ranges
HorizonValues ==
    { Values(100, "expense", s, "pix_debit", Undefined, 1, TRUE, e) :
          s \in HorizonStartDates, e \in FarEndDates }

DateValues ==
    { Values(100, "expense", s, "creditCard", "card1", n, FALSE, UndefinedDate) :
          s \in StartDates, n \in Counts }
    \cup
    { Values(100, "expense", s, "pix_debit", Undefined, 1, TRUE, e) :
          s \in StartDates, e \in EndDates }

(***************************************************************************)
(* The form when a listed transaction is edited                            *)
(***************************************************************************)
\* a field of a document, undefined when the document has none
Field(o, k) == IF k \in DOMAIN o THEN o[k] ELSE Undefined

\* the description as the template literals of addTransaction wrote it
DescriptionText(d) ==
    IF Len(d) = 1 THEN d[1]
    ELSE IF Len(d) = 2 THEN d[1] \o " " \o d[2]
    ELSE d[1] \o " (" \o ToString(d[2]) \o "/" \o ToString(d[3]) \o ")"

\* handleEdit(transaction): form.reset from the listed transaction
HandleEdit(transaction) ==
    [description      |-> DescriptionText(transaction.description),
     amount           |-> MathAbs(transaction.amount),
     type             |-> transaction.type,
     category         |-> transaction.category,
     date             |-> NewDate(transaction.date),
     paymentMethod    |-> Field(transaction, "paymentMethod"),
     creditCardId     |-> Field(transaction, "creditCardId"),
     installments     |-> 1,
     isRecurring      |-> FALSE,
     recurringEndDate |-> UndefinedDate]

\* the user picks another type: the effect on type
SetType(form, type) ==
    IF type = "income"
    THEN [form EXCEPT !.type = type, !.paymentMethod = Undefined,
                      !.creditCardId = Undefined, !.installments = 1,
                      !.isRecurring = FALSE]
    ELSE [form EXCEPT !.type = type, !.paymentMethod = "pix_debit"]

\* the user picks a payment method: the effect on paymentMethod, which leaves
\* creditCardId as it is
SetPaymentMethod(form, method) ==
    [form EXCEPT !.paymentMethod = method,
                 !.installments = IF method # "creditCard" THEN 1 ELSE @]

\* the user picks a card in the field shown for paymentMethod creditCard
SetCreditCardId(form, card) == [form EXCEPT !.creditCardId = card]

\* the user picks a category
SetCategory(form, category) == [form EXCEPT !.category = category]

\* the credit cards of the user
CreditCardIds == {"card1"}

\* the categories the user picks among: the fallback and the custom ones
CategoryChoices == {OtherCategory} \cup DOMAIN categories

\* the values the form can hold at submission: as reset, or after one change
FormEdits(form) ==
    {form}
    \cup {SetCategory(form, c) : c \in CategoryChoices}
    \cup {SetType(form, t) : t \in {"income", "expense"} \ {form.type}}
    \cup {SetPaymentMethod(form, "pix_debit")}
    \cup {SetCreditCardId(SetPaymentMethod(form, "creditCard"), card) :
            card \in CreditCardIds}

\* { ...values, groupId }
WithGroupId(values, groupId) ==
    [k \in DOMAIN values \cup {"groupId"} |->
        IF k = "groupId" THEN groupId ELSE values[k]]

\* the new transaction of the editing runs: a single expense in a custom
\* category
EditFormValues ==
    { [Values(100, "expense", Day(2024, 0, 31, 1), "pix_debit", Undefined, 1, FALSE,
              UndefinedDate) EXCEPT !.category = c] : c \in DOMAIN categories }

\* the submission the editing runs start from: a purchase in two installments
\* on a card, in the custom category
PurchaseValues ==
    [Values(100, "expense", Day(2024, 0, 31, 1), "creditCard", "card1", 2, FALSE,
            UndefinedDate) EXCEPT !.category = "cat1"]

\* that submission as addTransaction made it and its commit ended it
StoredPurchase ==
    LET list == NewTransactionsList(PurchaseValues, "g1")
    IN  [values |-> PurchaseValues, groupId |-> "g1", list |-> list,
         ids |-> [k \in 1..Len(list) |-> k],
         status |-> "committed", toasts |-> <<"Parcelas adicionadas!">>]

\* the custom categories of the editing runs: one, added on the settings page
CustomCategories == ("cat1" :> [name |-> "Viagem", icon |-> "Plane"])

(***************************************************************************)
(* The dialogs of DashboardShell                                           *)
(***************************************************************************)
\* handleDialogChange(open): closing resets editingTransaction and the form
HandleDialogChange(shell, open) ==
    IF open THEN [shell EXCEPT !.isDialogOpen = TRUE]
    ELSE [shell EXCEPT !.editingTransaction = NoTransaction,
                       !.form = DefaultValues, !.isDialogOpen = FALSE]

\* handleEdit(transaction) on a row of the list
EditRow(transaction) ==
    /\ ~ui.isDialogOpen
    /\ ui' = [ui EXCEPT !.editingTransaction = transaction,
                        !.form = HandleEdit(transaction),
                        !.isDialogOpen = TRUE]
    /\ UNCHANGED <<user, store, transactions, calls, deleted, loop, categories, ops,
                 futureStore, futureExpenses, cardStore, creditCards>>

\* the changes the user makes in the dialog runs: the fallback category, the
\* payment method Pix/Debito
ShellEdits(form) ==
    {SetCategory(form, OtherCategory), SetPaymentMethod(form, "pix_debit")}

\* the user changes a field of the form of the transaction being edited
ChangeField(values) ==
    /\ ui.isDialogOpen /\ ~ui.isGroupEditDialogOpen
    /\ ui.editingTransaction # NoTransaction
    /\ ui.form = HandleEdit(ui.editingTransaction)
    /\ values \in ShellEdits(ui.form) \ {ui.form}
    /\ ui' = [ui EXCEPT !.form = values]
    /\ UNCHANGED <<user, store, transactions, calls, deleted, loop, categories, ops,
                 futureStore, futureExpenses, cardStore, creditCards>>

\* the transaction is edited whatever its group: the question is never asked
AsksWhichToEditNever(editingTransaction) == FALSE

\* if (editingTransaction?.groupId)
AsksWhichToEdit(editingTransaction) == "groupId" \in DOMAIN editingTransaction

\* onSubmit(values), the form having passed the schema: the group-edit
\* dialog, updateTransaction or addTransaction
SubmitForm ==
    /\ ui.isDialogOpen /\ ~ui.isGroupEditDialogOpen
    /\ transactionSchema(ui.form)
    /\ IF AsksWhichToEdit(ui.editingTransaction)
       THEN /\ ui' = [ui EXCEPT !.isGroupEditDialogOpen = TRUE]
            /\ UNCHANGED <<user, store, transactions, calls, deleted, loop, categories,
                         ops, futureStore, futureExpenses, cardStore, creditCards>>
       ELSE IF ui.editingTransaction # NoTransaction
       THEN /\ UpdateTransaction(ui.editingTransaction.id,
                                 WithGroupId(ui.form, Undefined))
            /\ ui' = HandleDialogChange(ui, FALSE)
       ELSE /\ Len(calls) < MaxCalls
            /\ AddTransaction(ui.form)
            /\ ui' = HandleDialogChange(ui, FALSE)

\* handleConfirmGroupEdit after its await: both dialogs are closed
AfterConfirm(shell) ==
    HandleDialogChange([shell EXCEPT !.isGroupEditDialogOpen = FALSE], FALSE)

\* handleConfirmGroupEdit(updateAll), from a button of the group-edit dialog,
\* which stays open until the awaited call has ended
ConfirmGroupEdit(updateAll) ==
    /\ ui.isGroupEditDialogOpen
    /\ ui.editingTransaction # NoTransaction
    /\ LET values == ui.form
           editingTransaction == ui.editingTransaction
       IN  IF updateAll /\ "groupId" \in DOMAIN editingTransaction
           THEN /\ UpdateTransactionGroup(editingTransaction.groupId, values)
                /\ ui' = IF SignedOut(user) THEN AfterConfirm(ui)
                         ELSE [ui EXCEPT !.confirming = @ \cup {ops.started + 1}]
           ELSE /\ UpdateTransaction(editingTransaction.id,
                        WithGroupId(values, Field(editingTransaction, "groupId")))
                /\ ui' = AfterConfirm(ui)

\* the group-edit dialog is dismissed: onOpenChange(false)
DismissGroupEdit ==
    /\ ui.isGroupEditDialogOpen
    /\ ui' = [ui EXCEPT !.isGroupEditDialogOpen = FALSE]
    /\ UNCHANGED <<user, store, transactions, calls, deleted, loop, categories, ops,
                 futureStore, futureExpenses, cardStore, creditCards>>

\* the transaction dialog is closed without a submission
CloseDialog ==
    /\ ui.isDialogOpen /\ ~ui.isGroupEditDialogOpen
    /\ ui' = HandleDialogChange(ui, FALSE)
    /\ UNCHANGED <<user, store, transactions, calls, deleted, loop, categories, ops,
                 futureStore, futureExpenses, cardStore, creditCards>>

\* the shell when the group update op has ended
Settled(op) ==
    IF op.n \in ui.confirming
    THEN AfterConfirm([ui EXCEPT !.confirming = @ \ {op.n}])
    ELSE ui

(***************************************************************************)
(* The future-expense and credit-card providers                            *)
(***************************************************************************)
\* addDoc(collection, values): a new document under the given fresh id
AddDoc(s, id, values) == (id :> values) @@ s

\* the rows a query snapshot delivers: { id: doc.id, ...doc.data() }
SnapshotRows(s) ==
    {[k \in DOMAIN s[id] \cup {"id"} |-> IF k = "id" THEN id ELSE s[id][k]] :
        id \in DOMAIN s}

\* addDoc's document id: one no document of the collection has had
FreshId(prefix) == prefix \o ToString(ops.started + 2)

\* addFutureExpense(values)
AddFutureExpense(values) ==
    /\ ops.started < MaxOps
    /\ LET id == FreshId("bill")
           op == Started("addFutureExpense", id, values, {})
       IN  IF SignedOut(user)
           THEN /\ futureStore' = futureStore
                /\ ops' = [ops EXCEPT !.started = op.n, !.last = Ended(op, "returned")]
           ELSE \/ /\ futureStore' = AddDoc(futureStore, id, values)
                   /\ ops' = [ops EXCEPT !.started = op.n,
                                         !.last = Ended(op, "committed")]
                \/ /\ futureStore' = futureStore
                   /\ ops' = [ops EXCEPT !.started = op.n, !.last = Ended(op, "failed")]
    /\ UNCHANGED <<user, store, transactions, calls, deleted, loop, categories,
                 futureExpenses, cardStore, creditCards>>

\* updateFutureExpense(id, values)
UpdateFutureExpense(id, values) ==
    /\ ops.started < MaxOps
    /\ LET op == Started("updateFutureExpense", id, values, {id})
       IN  IF SignedOut(user)
           THEN /\ futureStore' = futureStore
                /\ ops' = [ops EXCEPT !.started = op.n, !.last = Ended(op, "returned")]
           ELSE \/ /\ id \in DOMAIN futureStore
                   /\ futureStore' = UpdateDoc(futureStore, id, values)
                   /\ ops' = [ops EXCEPT !.started = op.n,
                                         !.last = Ended(op, "committed")]
                \/ /\ futureStore' = futureStore
                   /\ ops' = [ops EXCEPT !.started = op.n, !.last = Ended(op, "failed")]
    /\ UNCHANGED <<user, store, transactions, calls, deleted, loop, categories,
                 futureExpenses, cardStore, creditCards>>

\* deleteFutureExpense(id)
DeleteFutureExpense(id) ==
    /\ ops.started < MaxOps
    /\ LET op == Started("deleteFutureExpense", id, <<>>, {id})
       IN  IF SignedOut(user)
           THEN /\ futureStore' = futureStore
                /\ ops' = [ops EXCEPT !.started = op.n, !.last = Ended(op, "returned")]
           ELSE \/ /\ futureStore' = DeleteDoc(futureStore, id)
                   /\ ops' = [ops EXCEPT !.started = op.n,
                                         !.last = Ended(op, "committed")]
                \/ /\ futureStore' = futureStore
                   /\ ops' = [ops EXCEPT !.started = op.n, !.last = Ended(op, "failed")]
    /\ UNCHANGED <<user, store, transactions, calls, deleted, loop, categories,
                 futureExpenses, cardStore, creditCards>>

\* the listener of the future expenses delivers the collection as it is
FutureSnapshot ==
    /\ user
    /\ futureExpenses # SnapshotRows(futureStore)
    /\ futureExpenses' = SnapshotRows(futureStore)
    /\ UNCHANGED <<user, store, transactions, calls, deleted, loop, categories, ops, ui,
                 futureStore, cardStore, creditCards>>

\* addCreditCard(values)
AddCreditCard(values) ==
    /\ ops.started < MaxOps
    /\ LET id == FreshId("card")
           op == Started("addCreditCard", id, values, {})
       IN  IF SignedOut(user)
           THEN /\ cardStore' = cardStore
                /\ ops' = [ops EXCEPT !.started = op.n, !.last = Ended(op, "returned")]
           ELSE \/ /\ cardStore' = AddDoc(cardStore, id, values)
                   /\ ops' = [ops EXCEPT !.started = op.n,
                                         !.last = Ended(op, "committed")]
                \/ /\ cardStore' = cardStore
                   /\ ops' = [ops EXCEPT !.started = op.n, !.last = Ended(op, "failed")]
    /\ UNCHANGED <<user, store, transactions, calls, deleted, loop, categories, ui,
                 futureStore, futureExpenses, creditCards>>

\* updateCreditCard(id, values)
UpdateCreditCard(id, values) ==
    /\ ops.started < MaxOps
    /\ LET op == Started("updateCreditCard", id, values, {id})
       IN  IF SignedOut(user)
           THEN /\ cardStore' = cardStore
                /\ ops' = [ops EXCEPT !.started = op.n, !.last = Ended(op, "returned")]
           ELSE \/ /\ id \in DOMAIN cardStore
                   /\ cardStore' = UpdateDoc(cardStore, id, values)
                   /\ ops' = [ops EXCEPT !.started = op.n,
                                         !.last = Ended(op, "committed")]
                \/ /\ cardStore' = cardStore
                   /\ ops' = [ops EXCEPT !.started = op.n, !.last = Ended(op, "failed")]
    /\ UNCHANGED <<user, store, transactions, calls, deleted, loop, categories, ui,
                 futureStore, futureExpenses, creditCards>>

\* deleteCreditCard(id)
DeleteCreditCard(id) ==
    /\ ops.started < MaxOps
    /\ LET op == Started("deleteCreditCard", id, <<>>, {id})
       IN  IF SignedOut(user)
           THEN /\ cardStore' = cardStore
                /\ ops' = [ops EXCEPT !.started = op.n, !.last = Ended(op, "returned")]
           ELSE \/ /\ cardStore' = DeleteDoc(cardStore, id)
                   /\ ops' = [ops EXCEPT !.started = op.n,
                                         !.last = Ended(op, "committed")]
                \/ /\ cardStore' = cardStore
                   /\ ops' = [ops EXCEPT !.started = op.n, !.last = Ended(op, "failed")]
    /\ UNCHANGED <<user, store, transactions, calls, deleted, loop, categories, ui,
                 futureStore, futureExpenses, creditCards>>

\* the listener of the credit cards delivers the collection as it is
CardSnapshot ==
    /\ user
    /\ creditCards # SnapshotRows(cardStore)
    /\ creditCards' = SnapshotRows(cardStore)
    /\ UNCHANGED <<user, store, transactions, calls, deleted, loop, categories, ops, ui,
                 futureStore, futureExpenses, cardStore>>

(***************************************************************************)
(* The page of the future expenses                                         *)
(***************************************************************************)
\* handleMarkAsPaid(expense): the defaults of the transaction form, the
\* deletion of the future expense, the transaction dialog opened by default
HandleMarkAsPaid(expense) ==
    /\ ~ui.isTransactionModalOpen /\ ~ui.isDialogOpen
    /\ LET transactionDefaults ==
               [description |-> expense.description, amount |-> expense.amount,
                type |-> "expense"]
       IN  ui' = [ui EXCEPT !.transactionDefaults = transactionDefaults,
                            !.isTransactionModalOpen = TRUE,
                            !.isDialogOpen = TRUE,
                            !.form = transactionDefaults @@ DefaultValues]
    /\ DeleteFutureExpense(expense.id)

\* the user picks a category in the form of a new transaction
PickCategory(category) ==
    /\ ui.isDialogOpen /\ ~ui.isGroupEditDialogOpen
    /\ ui.editingTransaction = NoTransaction
    /\ ui.form.category = ""
    /\ ui' = [ui EXCEPT !.form = SetCategory(ui.form, category)]
    /\ UNCHANGED <<user, store, transactions, calls, deleted, loop, categories, ops,
                 futureStore, futureExpenses, cardStore, creditCards>>

(***************************************************************************)
(* The totals of the dashboard                                             *)
(***************************************************************************)
\* a + b on signed numbers
NumPlus(a, b) ==
    IF a.neg = b.neg THEN Num(a.neg, NumAdd(a.mag, b.mag))
    ELSE IF BigCmp(a.mag, b.mag) = 0 THEN Num(FALSE, BigZero)
    ELSE IF BigCmp(a.mag, b.mag) > 0 THEN Num(a.neg, NumAbsDiff(a.mag, b.mag))
    ELSE Num(b.neg, NumAbsDiff(a.mag, b.mag))

\* monthlyTransactions: the listed transactions dated in currentMonth, by
\* getMonth() and getFullYear()
MonthlyTransactions(currentMonth) ==
    SelectSeq(transactions,
              LAMBDA t : /\ NewDate(t.date).m = currentMonth.m
                         /\ NewDate(t.date).y = currentMonth.y)

\* the accumulator of the reduce over the first n monthly transactions
RECURSIVE ReduceTotals(_, _)
ReduceTotals(monthly, n) ==
    IF n = 0
    THEN [totalIncome |-> Num(FALSE, BigZero), cardExpense |-> Num(FALSE, BigZero),
          cashExpense |-> Num(FALSE, BigZero)]
    ELSE LET acc == ReduceTotals(monthly, n - 1)
             t   == monthly[n]
         IN  IF t.type = "income"
             THEN [acc EXCEPT !.totalIncome = NumPlus(@, t.amount)]
             ELSE IF Field(t, "paymentMethod") = "creditCard"
             THEN [acc EXCEPT !.cardExpense = NumPlus(@, t.amount)]
             ELSE IF Field(t, "paymentMethod") = "pix_debit"
             THEN [acc EXCEPT !.cashExpense = NumPlus(@, t.amount)]
             ELSE acc

\* finalTotals: totalExpense and balance from the three sums
FinalTotals(currentMonth) ==
    LET monthly      == MonthlyTransactions(currentMonth)
        acc          == ReduceTotals(monthly, Len(monthly))
        totalExpense == NumPlus(acc.cardExpense, acc.cashExpense)
    IN  [totalIncome  |-> acc.totalIncome,
         totalExpense |-> totalExpense,
         balance      |-> NumPlus(acc.totalIncome, totalExpense),
         cardExpense  |-> acc.cardExpense,
         cashExpense  |-> acc.cashExpense]

\* the months the dashboard is moved through
CurrentMonths == {[y |-> 2024, m |-> m] : m \in 0..3}

(***************************************************************************)
(* Specifications                                                          *)
(***************************************************************************)
\* onSubmit of the form, a new transaction: the schema, then addTransaction
OnSubmit ==
    \E values \in FormValues :
        /\ Len(calls) < MaxCalls
        /\ transactionSchema(values)
        /\ AddTransaction(values)
        /\ UNCHANGED ui

Commit == \E c \in 1..Len(calls) : BatchCommit(c)

CommitFails == \E c \in 1..Len(calls) : BatchFail(c)

ConfirmDelete == \E k \in 1..Len(transactions) : DeleteTransaction(transactions[k].id)

Next ==
    \/ OnSubmit
    \/ Commit
    \/ CommitFails
    \/ ConfirmDelete
    \/ OnSnapshot
    \/ Logout
    \/ Login

Spec == Init /\ [][Next]_vars

\* one submission from the amount values, into an empty collection
OnSubmitAmounts ==
    \E values \in AmountValues :
        /\ calls = <<>>
        /\ transactionSchema(values)
        /\ AddTransaction(values)
        /\ UNCHANGED ui

NextAmounts ==
    \/ OnSubmitAmounts
    \/ Commit
    \/ CommitFails
    \/ OnSnapshot

SpecAmounts == Init /\ [][NextAmounts]_vars

\* one submission from the date values, into an empty collection
OnSubmitDates ==
    \E values \in DateValues :
        /\ calls = <<>>
        /\ transactionSchema(values)
        /\ AddTransaction(values)
        /\ UNCHANGED ui

NextDates ==
    \/ OnSubmitDates
    \/ Commit
    \/ CommitFails
    \/ OnSnapshot

SpecDates == Init /\ [][NextDates]_vars

\* one submission from the horizon values, into an empty collection
OnSubmitHorizon ==
    \E values \in HorizonValues :
        /\ calls = <<>>
        /\ transactionSchema(values)
        /\ AddTransaction(values)
        /\ UNCHANGED ui

NextHorizon ==
    \/ OnSubmitHorizon
    \/ Commit
    \/ CommitFails

SpecHorizon == Init /\ [][NextHorizon]_vars

\* onSubmit of the form, a new transaction in a listed category: one
\* submission after the stored one
OnSubmitNew ==
    \E values \in EditFormValues :
        /\ calls = <<StoredPurchase>>
        /\ values.category \in AllCategories
        /\ transactionSchema(values)
        /\ AddTransaction(values)
        /\ UNCHANGED ui

\* the rows of the list, the listener having delivered the collection
Rows == {SnapshotDoc(id) : id \in DOMAIN store}

\* confirmDelete on a row of the list
ConfirmDeleteRow == \E transaction \in Rows : DeleteTransaction(transaction.id)

\* onSubmit of the form, a listed transaction of no group being edited
OnSubmitEdit ==
    \E editingTransaction \in Rows :
        \E values \in FormEdits(HandleEdit(editingTransaction)) :
            /\ "groupId" \notin DOMAIN editingTransaction
            /\ transactionSchema(values)
            /\ UpdateTransaction(editingTransaction.id, WithGroupId(values, Undefined))
            /\ UNCHANGED ui

\* handleConfirmGroupEdit(updateAll), a listed group member being edited and
\* the form submitted
HandleConfirmGroupEdit(updateAll) ==
    \E editingTransaction \in Rows :
        \E values \in FormEdits(HandleEdit(editingTransaction)) :
            /\ "groupId" \in DOMAIN editingTransaction
            /\ transactionSchema(values)
            /\ IF updateAll
               THEN UpdateTransactionGroup(editingTransaction.groupId, values)
               ELSE UpdateTransaction(editingTransaction.id,
                        WithGroupId(values, editingTransaction.groupId))
            /\ UNCHANGED ui

ConfirmEditOne == HandleConfirmGroupEdit(FALSE)

ConfirmEditAll == HandleConfirmGroupEdit(TRUE)

GroupCommit == \E op \in ops.pending : GroupBatchCommit(op) /\ UNCHANGED ui

GroupCommitFails == \E op \in ops.pending : GroupBatchFail(op) /\ UNCHANGED ui

\* confirmDelete of the settings page, on a listed custom category
ConfirmDeleteCategory == \E id \in DOMAIN categories : DeleteCategory(id)

CategoryCommit == \E op \in ops.pending : CategoryBatchCommit(op)

CategoryCommitFails == \E op \in ops.pending : CategoryBatchFail(op)

NextEdit ==
    \/ OnSubmitNew
    \/ Commit
    \/ CommitFails
    \/ ConfirmDeleteRow
    \/ OnSubmitEdit
    \/ ConfirmEditOne
    \/ ConfirmEditAll
    \/ GroupCommit
    \/ GroupCommitFails
    \/ ConfirmDeleteCategory
    \/ CategoryCommit
    \/ CategoryCommitFails

\* the user has added a custom category and stored a purchase in it
InitEdit ==
    /\ user = TRUE
    /\ store = BatchWrites(StoredPurchase)
    /\ transactions = <<>>
    /\ calls = <<StoredPurchase>>
    /\ deleted = {}
    /\ loop = LoopIdle
    /\ categories = CustomCategories
    /\ ops = NoOps
    /\ ui = ClosedShell
    /\ futureStore = <<>>
    /\ futureExpenses = {}
    /\ cardStore = <<>>
    /\ creditCards = {}

\* the transactions and the categories of one user, edited from several tabs
SpecEdit == InitEdit /\ [][NextEdit]_vars

\* a recurring expense of one month in a custom category, as addTransaction
\* made it and its commit ended it
RecurringValues ==
    [Values(100, "expense", Day(2024, 0, 31, 1), "pix_debit", Undefined, 1, TRUE,
            Day(2024, 1, 15, 0)) EXCEPT !.category = "cat1"]

StoredRecurring ==
    LET list == NewTransactionsList(RecurringValues, "g1")
    IN  [values |-> RecurringValues, groupId |-> "g1", list |-> list,
         ids |-> [k \in 1..Len(list) |-> k],
         status |-> "committed", toasts |-> <<"Despesa recorrente adicionada!">>]

\* a single expense, stored after it
SingleValues ==
    Values(100, "expense", Day(2024, 0, 31, 1), "pix_debit", Undefined, 1, FALSE,
           UndefinedDate)

StoredSingle ==
    LET list == NewTransactionsList(SingleValues, "g2")
    IN  [values |-> SingleValues, groupId |-> "g2", list |-> list,
         ids |-> [k \in 1..Len(list) |-> Len(StoredRecurring.ids) + k],
         status |-> "committed", toasts |-> <<"Transacao adicionada!">>]

\* the list shows the recurring expense and the single one
InitDialog ==
    /\ user = TRUE
    /\ store = BatchWrites(StoredRecurring) @@ BatchWrites(StoredSingle)
    /\ transactions = QuerySnapshot
    /\ calls = <<StoredRecurring, StoredSingle>>
    /\ deleted = {}
    /\ loop = LoopIdle
    /\ categories = CustomCategories
    /\ ops = NoOps
    /\ ui = ClosedShell
    /\ futureStore = <<>>
    /\ futureExpenses = {}
    /\ cardStore = <<>>
    /\ creditCards = {}

ClickEdit == \E k \in 1..Len(transactions) : EditRow(transactions[k])

ChangeForm == \E values \in ShellEdits(ui.form) : ChangeField(values)

PickOnlyThis == ConfirmGroupEdit(FALSE)

PickAll == ConfirmGroupEdit(TRUE)

GroupSettles == \E op \in ops.pending : GroupBatchCommit(op) /\ ui' = Settled(op)

GroupSettlesFailed == \E op \in ops.pending : GroupBatchFail(op) /\ ui' = Settled(op)

NextDialog ==
    \/ ClickEdit
    \/ ChangeForm
    \/ SubmitForm
    \/ PickOnlyThis
    \/ PickAll
    \/ DismissGroupEdit
    \/ CloseDialog
    \/ GroupSettles
    \/ GroupSettlesFailed
    \/ ConfirmDelete
    \/ OnSnapshot

\* one tab: the list, the transaction dialog and the group-edit dialog
SpecDialog == InitDialog /\ [][NextDialog]_vars

\* the future expenses the user types: description and amount
BillValues ==
    { [description |-> "aluguel", amount |-> Num(FALSE, NumberOfCents(100))] }

\* the future expense stored when the runs start
StoredBills ==
    ("bill1" :> [description |-> "internet", amount |-> Num(FALSE, NumberOfCents(50))])

\* the credit cards the user types
CardValues ==
    { [name |-> "Visa", brand |-> "visa", limit |-> 1000, closingDay |-> 1,
       dueDay |-> 10] }

\* the credit card stored when the runs start
StoredCards ==
    ("card1" :> [name |-> "Master", brand |-> "mastercard", limit |-> 500,
                 closingDay |-> 5, dueDay |-> 15])

\* the page of the future expenses, one of them stored and listed
InitBills ==
    /\ user = TRUE
    /\ store = <<>>
    /\ transactions = <<>>
    /\ calls = <<>>
    /\ deleted = {}
    /\ loop = LoopIdle
    /\ categories = <<>>
    /\ ops = NoOps
    /\ ui = ClosedShell
    /\ futureStore = StoredBills
    /\ futureExpenses = SnapshotRows(StoredBills)
    /\ cardStore = <<>>
    /\ creditCards = {}

\* onSubmit of the form of the page, no future expense being edited
AddBill ==
    \E values \in BillValues :
        /\ ~ui.isTransactionModalOpen
        /\ AddFutureExpense(values)
        /\ UNCHANGED ui

\* onSubmit of the form of the page, a listed future expense being edited
EditBill ==
    \E editingExpense \in futureExpenses, values \in BillValues :
        /\ ~ui.isTransactionModalOpen
        /\ UpdateFutureExpense(editingExpense.id, values)
        /\ UNCHANGED ui

\* confirmDelete of the page
ConfirmDeleteBill ==
    \E expense \in futureExpenses :
        /\ ~ui.isTransactionModalOpen
        /\ DeleteFutureExpense(expense.id)
        /\ UNCHANGED ui

MarkAsPaid == \E expense \in futureExpenses : HandleMarkAsPaid(expense)

ChooseCategory == \E category \in CategoryChoices : PickCategory(category)

\* the user leaves the page: its state is dropped
LeavePage ==
    /\ ui.isTransactionModalOpen
    /\ ui' = ClosedShell
    /\ UNCHANGED <<user, store, transactions, calls, deleted, loop, categories, ops,
                 futureStore, futureExpenses, cardStore, creditCards>>

NextBills ==
    \/ AddBill
    \/ EditBill
    \/ ConfirmDeleteBill
    \/ MarkAsPaid
    \/ FutureSnapshot
    \/ ChooseCategory
    \/ SubmitForm
    \/ CloseDialog
    \/ LeavePage
    \/ Commit
    \/ CommitFails
    \/ OnSnapshot

SpecBills == InitBills /\ [][NextBills]_vars

\* a signed-in user with a transaction, a future expense and a credit card,
\* stored and listed
InitAuth ==
    /\ user = TRUE
    /\ store = BatchWrites(StoredRecurring)
    /\ transactions = QuerySnapshot
    /\ calls = <<StoredRecurring>>
    /\ deleted = {}
    /\ loop = LoopIdle
    /\ categories = <<>>
    /\ ops = NoOps
    /\ ui = ClosedShell
    /\ futureStore = StoredBills
    /\ futureExpenses = SnapshotRows(StoredBills)
    /\ cardStore = StoredCards
    /\ creditCards = SnapshotRows(StoredCards)

\* the values of the update calls of the sign-in runs: the listed transaction
\* moved to the fallback category, paid by Pix/Debito
UpdateValues(id) ==
    SetCategory(SetPaymentMethod(HandleEdit(SnapshotDoc(id)), "pix_debit"),
                OtherCategory)

CallAddTransaction ==
    /\ calls = <<StoredRecurring>>
    /\ AddTransaction(SingleValues)
    /\ UNCHANGED ui

CallUpdateTransaction ==
    \E id \in DOMAIN store :
        /\ UpdateTransaction(id, WithGroupId(UpdateValues(id), Field(store[id], "groupId")))
        /\ UNCHANGED ui

CallUpdateTransactionGroup ==
    \E id \in DOMAIN store :
        /\ "groupId" \in DOMAIN store[id]
        /\ UpdateTransactionGroup(store[id].groupId, UpdateValues(id))
        /\ UNCHANGED ui

CallDeleteTransaction == \E id \in DOMAIN store : DeleteTransaction(id)

CallAddFutureExpense ==
    \E values \in BillValues : AddFutureExpense(values) /\ UNCHANGED ui

CallUpdateFutureExpense ==
    \E id \in DOMAIN futureStore, values \in BillValues :
        UpdateFutureExpense(id, values) /\ UNCHANGED ui

CallDeleteFutureExpense ==
    \E id \in DOMAIN futureStore : DeleteFutureExpense(id) /\ UNCHANGED ui

CallAddCreditCard == \E values \in CardValues : AddCreditCard(values)

CallUpdateCreditCard ==
    \E id \in DOMAIN cardStore, values \in CardValues : UpdateCreditCard(id, values)

CallDeleteCreditCard == \E id \in DOMAIN cardStore : DeleteCreditCard(id)

NextAuth ==
    \/ Login
    \/ Logout
    \/ OnSnapshot
    \/ FutureSnapshot
    \/ CardSnapshot
    \/ CallAddTransaction
    \/ Commit
    \/ CommitFails
    \/ CallUpdateTransaction
    \/ CallUpdateTransactionGroup
    \/ GroupCommit
    \/ GroupCommitFails
    \/ CallDeleteTransaction
    \/ CallAddFutureExpense
    \/ CallUpdateFutureExpense
    \/ CallDeleteFutureExpense
    \/ CallAddCreditCard
    \/ CallUpdateCreditCard
    \/ CallDeleteCreditCard

\* the three providers under sign-out and sign-in, their functions called by
\* components that hold the ids of stored documents
SpecAuth == InitAuth /\ [][NextAuth]_vars

(***************************************************************************)
(* The recurring loop of addTransaction, one iteration a step               *)
(***************************************************************************)
InitLoop ==
    /\ user = TRUE
    /\ store = <<>>
    /\ transactions = <<>>
    /\ calls = <<>>
    /\ deleted = {}
    /\ categories = <<>>
    /\ ops = NoOps
    /\ ui = ClosedShell
    /\ futureStore = <<>>
    /\ futureExpenses = {}
    /\ cardStore = <<>>
    /\ creditCards = {}
    /\ \E startDate \in StartDates, endDate \in EndDates :
          loop = [pc |-> "loop", endDate |-> endDate,
                  currentDate |-> startDate, i |-> 0, dates |-> <<>>]

\* the condition holds: one pass of the body
LoopIterate ==
    /\ loop.pc = "loop"
    /\ loop.i < MaxIter
    /\ LoopCondition(loop.currentDate, loop.endDate)
    /\ loop' = [loop EXCEPT !.dates = Append(@, loop.currentDate),
                            !.currentDate = LoopAdvance(loop.currentDate),
                            !.i = @ + 1]
    /\ UNCHANGED <<user, store, transactions, calls, deleted, categories, ops, ui,
                 futureStore, futureExpenses, cardStore, creditCards>>

\* the condition fails: the loop is left
LoopExit ==
    /\ loop.pc = "loop"
    /\ ~LoopCondition(loop.currentDate, loop.endDate)
    /\ loop' = [loop EXCEPT !.pc = "done"]
    /\ UNCHANGED <<user, store, transactions, calls, deleted, categories, ops, ui,
                 futureStore, futureExpenses, cardStore, creditCards>>

NextLoop ==
    \/ LoopIterate
    \/ LoopExit

\* the loop is synchronous code: it runs on until it is left
SpecLoop ==
    InitLoop /\ [][NextLoop]_vars /\ WF_vars(LoopIterate) /\ WF_vars(LoopExit)

(***************************************************************************)
(* Properties                                                              *)
(***************************************************************************)
Committed == {c \in 1..Len(calls) : calls[c].status = "committed"}

\* the ids of call c whose documents are stored
Present(c) == {k \in 1..Len(calls[c].ids) : calls[c].ids[k] \in DOMAIN store}

\* the k-th document call c wrote
Written(c, k) == store[calls[c].ids[k]]

AllPresent(c) == Present(c) = 1..Len(calls[c].ids)

RECURSIVE SumCents(_, _)
SumCents(c, k) ==
    IF k = 0 THEN 0 ELSE CentsOf(Written(c, k).amount.mag) + SumCents(c, k - 1)

\* the request asks for installments (count >= 1): an expense, not recurring
AsksInstallments(values) ==
    values.type = "expense" /\ ~values.isRecurring /\ values.installments >= 1

\* the request asks for a recurring expense
AsksRecurring(values) ==
    values.type = "expense" /\ values.isRecurring
        /\ values.recurringEndDate # UndefinedDate

\* date + k calendar months, the day clamped to the length of the month
PlusMonths(date, k) ==
    LET month == date.y * 12 + date.m + k
        days  == DaysInMonth(month \div 12, month % 12)
    IN  [y |-> month \div 12, m |-> month % 12,
         d |-> IF date.d < days THEN date.d ELSE days, t |-> date.t]

\* full calendar months from startDate to endDate (startDate <= endDate)
MonthsBetween(startDate, endDate) ==
    CHOOSE k \in 0..((endDate.y - startDate.y) * 12 + endDate.m - startDate.m) :
        /\ DateLE(PlusMonths(startDate, k), endDate)
        /\ DateLT(endDate, PlusMonths(startDate, k + 1))

\* C1: the amounts written for an installment submission of total T cents in
\* N installments add up to T to the cent, and the absolute value of none of
\* them is below 0 or above T.
C1_InstallmentsSumToTotal ==
    \A c \in Committed :
        LET values == calls[c].values
            T      == CentsOf(values.amount.mag)
        IN  AsksInstallments(values) /\ values.installments \in Counts =>
              /\ AllPresent(c)
              /\ SumCents(c, Len(calls[c].ids)) = T
              /\ \A k \in Present(c) :
                    /\ CentsOf(Written(c, k).amount.mag) >= 0
                    /\ CentsOf(Written(c, k).amount.mag) <= T
                    /\ BigCmp(Written(c, k).amount.mag, values.amount.mag) <= 0

\* C1 witness: 0.58 in 2 installments is stored as two amounts adding up to 58 cents
C1_Witness ==
    \E c \in Committed :
        /\ calls[c].values.installments = 2
        /\ CentsOf(calls[c].values.amount.mag) = 58
        /\ AllPresent(c)
        /\ Len(calls[c].ids) = 2
        /\ SumCents(c, 2) = 58

\* C2: every installment but the last is T/N rounded down to the cent, and
\* the last one exceeds that by a remainder r, 0 <= r < N cents.
C2_BaseIsFloorRemainderBelowCount ==
    \A c \in Committed :
        LET values == calls[c].values
            T      == CentsOf(values.amount.mag)
            N      == values.installments
        IN  AsksInstallments(values) /\ N \in Counts /\ N >= 2 /\ AllPresent(c) =>
              /\ \A k \in 1..(N - 1) :
                    CentsOf(Written(c, k).amount.mag) = T \div N
              /\ CentsOf(Written(c, N).amount.mag) - T \div N \in 0..(N - 1)

\* C3: a group is stored and delivered whole or not at all while none of its
\* members has been deleted, a failed commit stores nothing of its batch and
\* leaves the collection as it was.
C3_WholeOrAbsent ==
    \A c \in 1..Len(calls) :
        LET ids   == Ids(calls[c].ids)
            shown == {transactions[k].id : k \in 1..Len(transactions)}
        IN  /\ ids \cap deleted = {} =>
                /\ ids \subseteq DOMAIN store \/ ids \cap DOMAIN store = {}
                /\ ids \subseteq shown \/ ids \cap shown = {}
            /\ calls[c].status \in {"failed", "pending", "unauthenticated"} =>
                ids \cap DOMAIN store = {}

C3_FailedCommitKeepsStore ==
    (\E c \in 1..Len(calls) :
        calls[c].status = "pending" /\ calls'[c].status = "failed")
    => store' = store

C3_GroupCreationAtomic == [](C3_WholeOrAbsent) /\ [][C3_FailedCommitKeepsStore]_vars

\* C3 witness: a group of three stored and delivered whole, next to a batch
\* of several documents whose commit failed
C3_Witness ==
    \E c, f \in 1..Len(calls) :
        /\ calls[c].status = "committed" /\ Len(calls[c].ids) = 3
        /\ AllPresent(c)
        /\ Ids(calls[c].ids) \subseteq {transactions[k].id : k \in 1..Len(transactions)}
        /\ calls[f].status = "failed" /\ Len(calls[f].ids) >= 2

\* the group fields of the documents of call c, as the claim states them
GroupFieldsOf(c) ==
    /\ \A k \in Present(c) :
          /\ "groupId" \in DOMAIN Written(c, k)
          /\ Written(c, k).groupId = calls[c].groupId
          /\ "isOriginal" \in DOMAIN Written(c, k)
          /\ Written(c, k).isOriginal = (k = 1)
    /\ \A o \in 1..Len(calls) : o # c => calls[o].groupId # calls[c].groupId
    /\ \A id \in DOMAIN store :
          "groupId" \in DOMAIN store[id] /\ store[id].groupId = calls[c].groupId
              => id \in Ids(calls[c].ids)

\* C4 as claimed: for installments of any count >= 1 and for recurring mode,
\* every transaction of a submission carries the same fresh groupId and
\* exactly the first one is written with isOriginal = true.
C4_Original ==
    \A c \in Committed :
        AsksInstallments(calls[c].values) \/ AsksRecurring(calls[c].values)
            => GroupFieldsOf(c)

\* C4 as amended: the same for installments of any count >= 2 and for
\* recurring mode; a count of 1 writes one transaction with neither a groupId
\* nor isOriginal.
C4_GroupIdAndOriginal ==
    \A c \in Committed :
        LET values == calls[c].values
        IN  /\ (AsksInstallments(values) /\ values.installments >= 2)
                    \/ AsksRecurring(values)
                => GroupFieldsOf(c)
            /\ AsksInstallments(values) /\ values.installments = 1 =>
                /\ Len(calls[c].ids) = 1
                /\ \A k \in Present(c) :
                      /\ "groupId" \notin DOMAIN Written(c, k)
                      /\ "isOriginal" \notin DOMAIN Written(c, k)

\* C4 witness: an installment group of three and a recurring group, both stored
C4_Witness ==
    \E c, r \in Committed :
        /\ AsksInstallments(calls[c].values) /\ calls[c].values.installments = 3
        /\ AllPresent(c) /\ Len(calls[c].ids) = 3
        /\ AsksRecurring(calls[r].values)
        /\ AllPresent(r) /\ Len(calls[r].ids) >= 2
        /\ calls[c].groupId # calls[r].groupId

\* C5: an installment submission of count N writes exactly N transactions,
\* the k-th dated startDate + k calendar months, counted from startDate.
C5_InstallmentDates ==
    \A c \in Committed :
        LET values == calls[c].values
        IN  AsksInstallments(values) /\ values.installments \in Counts =>
              /\ Len(calls[c].ids) = values.installments
              /\ AllPresent(c)
              /\ \A k \in Present(c) :
                    Written(c, k).date = PlusMonths(values.date, k - 1)

\* C5 witness: three installments from 31 January 2024 are dated 31 January,
\* 29 February and 31 March
C5_Witness ==
    \E c \in Committed :
        /\ AsksInstallments(calls[c].values) /\ calls[c].values.installments = 3
        /\ calls[c].values.date = Day(2024, 0, 31, 0)
        /\ AllPresent(c)
        /\ Written(c, 2).date = Day(2024, 1, 29, 0)
        /\ Written(c, 3).date = Day(2024, 2, 31, 0)

\* C6: the k-th transaction of a recurring submission is dated
\* startDate + k calendar months, whatever the day of the month of startDate.
C6_RecurringDates ==
    \A c \in Committed :
        AsksRecurring(calls[c].values) /\ AllPresent(c) =>
            \A k \in Present(c) :
                Written(c, k).date = PlusMonths(calls[c].values.date, k - 1)

\* C7: a recurring submission writes floor(monthsBetween(startDate, endDate)) + 1
\* transactions.
C7_RecurringCount ==
    \A c \in Committed :
        LET values == calls[c].values
        IN  AsksRecurring(values) /\ DateLE(values.date, values.recurringEndDate) =>
              Len(calls[c].ids) = MonthsBetween(values.date, values.recurringEndDate) + 1

\* C8: every transaction of a recurring submission is dated from startDate to
\* endDate, and the first one is dated startDate.
C8_RecurringWithinRange ==
    \A c \in Committed :
        LET values == calls[c].values
        IN  AsksRecurring(values) =>
              /\ AllPresent(c)
              /\ \A k \in Present(c) :
                    /\ DateLE(values.date, Written(c, k).date)
                    /\ DateLE(Written(c, k).date, values.recurringEndDate)
                    /\ k = 1 => Written(c, k).date = values.date

\* C8 witness: a recurring group from 28 January to 28 March 2024, whose
\* third and last transaction is dated endDate
C8_Witness ==
    \E c \in Committed :
        /\ AsksRecurring(calls[c].values)
        /\ calls[c].values.date = Day(2024, 0, 28, 0)
        /\ calls[c].values.recurringEndDate = Day(2024, 2, 28, 0)
        /\ AllPresent(c) /\ Len(calls[c].ids) = 3
        /\ Written(c, 1).date = Day(2024, 0, 28, 0)
        /\ Written(c, 3).date = Day(2024, 2, 28, 0)

\* C9: the recurring loop ends for every startDate and endDate with a finite
\* list, each iteration moving currentDate strictly forward.
C9_LoopTerminates ==
    /\ <>(loop.pc = "done")
    /\ [][loop'.i > loop.i => DateLT(loop.currentDate, loop'.currentDate)]_vars

\* C9 witness: the loop has ended after a year of iterations or more
C9_Witness == loop.pc = "done" /\ Len(loop.dates) >= 12 /\ loop.i = Len(loop.dates)

\* C10: a submission neither recurring nor in installments writes exactly one
\* transaction: -|amount| for an expense and +|amount| for an income, dated
\* startDate, with neither a groupId nor isOriginal.
C10_SingleTransaction ==
    \A c \in Committed :
        LET values == calls[c].values
        IN  ~values.isRecurring /\ values.installments <= 1 =>
              /\ Len(calls[c].ids) = 1
              /\ \A k \in Present(c) :
                    /\ Written(c, k).amount.mag = values.amount.mag
                    /\ Written(c, k).amount.neg = (values.type = "expense")
                    /\ Written(c, k).date = values.date
                    /\ "groupId" \notin DOMAIN Written(c, k)
                    /\ "isOriginal" \notin DOMAIN Written(c, k)

\* C10 witness: an income of 0.20 and an expense of 1.00 stored as +0.20 and -1.00
C10_Witness ==
    \E c, e \in Committed :
        /\ calls[c].values.type = "income" /\ calls[c].values.installments = 1
        /\ ~calls[c].values.isRecurring
        /\ AllPresent(c) /\ ~Written(c, 1).amount.neg
        /\ CentsOf(Written(c, 1).amount.mag) = 20
        /\ calls[e].values.type = "expense" /\ calls[e].values.installments = 1
        /\ ~calls[e].values.isRecurring
        /\ AllPresent(e) /\ Written(e, 1).amount.neg
        /\ CentsOf(Written(e, 1).amount.mag) = 100

(***************************************************************************)
(* Properties of the update, group update and deletion calls               *)
(***************************************************************************)
\* the step in which call op of the given kind ends with the given status
EndStep(op, kind, status) ==
    /\ op \in ops.pending
    /\ op.kind = kind
    /\ op \notin ops'.pending
    /\ ops'.last = [n |-> op.n, kind |-> kind, target |-> op.target,
                    seen |-> op.seen, status |-> status]

\* the step that is a whole updateTransaction call
UpdateStep ==
    /\ ops'.started = ops.started + 1
    /\ ops'.last.n = ops'.started
    /\ ops'.last.kind = "updateTransaction"

\* the stored transactions of a group
Members(s, groupId) ==
    {id \in DOMAIN s : "groupId" \in DOMAIN s[id] /\ s[id].groupId = groupId}

\* the fields updateTransactionGroup may change
GroupFields == {"category", "paymentMethod", "creditCardId"}

\* C11: the commit of updateTransactionGroup on a group of N stored members
\* changes those N transactions and no other, and leaves the description,
\* amount, date, type, groupId and isOriginal of each as they were: only
\* category, paymentMethod and creditCardId change.
C11_GroupUpdateFrame ==
    [][\A op \in ops.pending :
          EndStep(op, "updateTransactionGroup", "committed") =>
            /\ op.seen = Members(store, op.target)
            /\ DOMAIN store' = DOMAIN store
            /\ \A id \in DOMAIN store :
                  IF id \in Members(store, op.target)
                  THEN /\ DOMAIN store'[id] \subseteq DOMAIN store[id] \cup GroupFields
                       /\ \A k \in DOMAIN store[id] \ GroupFields :
                             k \in DOMAIN store'[id] /\ store'[id][k] = store[id][k]
                       /\ store'[id].category = op.values.category
                  ELSE store'[id] = store[id]]_vars

\* C11 witness: a group update has moved the two members of the purchase to
\* the category outros, next to a transaction of no group left in cat1
C11_Witness ==
    /\ ops.last.kind = "updateTransactionGroup" /\ ops.last.status = "committed"
    /\ Cardinality(Members(store, "g1")) = 2
    /\ \A id \in Members(store, "g1") :
          /\ store[id].category = "outros"
          /\ store[id].description = <<"compra", id, 2>>
          /\ store[id].isOriginal = (id = 1)
    /\ \E id \in DOMAIN store : "groupId" \notin DOMAIN store[id]
                                    /\ store[id].category = "cat1"

\* C12: when updateTransactionGroup commits with a payment method that is not
\* creditCard, no member of the group has a creditCardId afterwards.
C12_GroupUpdateClearsCard ==
    [][\A op \in ops.pending :
          /\ EndStep(op, "updateTransactionGroup", "committed")
          /\ op.values.paymentMethod \in {"cash", "pix_debit"}
          => \A id \in op.seen : "creditCardId" \notin DOMAIN store'[id]]_vars

\* C13: updateTransactionGroup ends in one step, in which either every
\* transaction its query returned is stored with the new fields or the
\* collection stays as it is, whatever was done between the query and the
\* commit.
C13_GroupUpdateAllOrNothing ==
    [][\A op \in ops.pending :
          op.kind = "updateTransactionGroup" /\ op \notin ops'.pending =>
            LET data == OmitUndefined(GroupDataToUpdate(op.values))
            IN  \/ /\ ops'.last.n = op.n /\ ops'.last.status = "committed"
                   /\ \A id \in op.seen :
                         /\ id \in DOMAIN store'
                         /\ \A k \in DOMAIN data : store'[id][k] = data[k]
                \/ /\ ops'.last.n = op.n /\ ops'.last.status = "failed"
                   /\ store' = store]_vars

\* C13 witness: the first call, a group update, has committed after a second
\* call was made and ended between its query and its commit
C13_Witness ==
    /\ ops.last.n = 1 /\ ops.last.kind = "updateTransactionGroup"
    /\ ops.last.status = "committed"
    /\ ops.started = 2 /\ ops.pending = {}
    /\ Cardinality(Members(store, "g1")) = 2

\* C14: no stored transaction is in a category that is neither a default
\* category nor a stored custom category.
C14_CategoriesExist ==
    \A id \in DOMAIN store : store[id].category \in AllCategories

C16_AmountSignMatchesType ==
    \A id \in DOMAIN store :
        /\ store[id].type = "income" =>
              ~store[id].amount.neg \/ store[id].amount.mag = BigZero
        /\ store[id].type = "expense" =>
              store[id].amount.neg \/ store[id].amount.mag = BigZero

\* C16 witness: an installment has been updated into an income of +0.50 next
\* to the other installment, an expense of -0.50
C16_Witness ==
    /\ ops.last.kind = "updateTransaction" /\ ops.last.status = "committed"
    /\ \E i, e \in DOMAIN store :
          /\ store[i].type = "income" /\ ~store[i].amount.neg
          /\ CentsOf(store[i].amount.mag) = 50
          /\ store[e].type = "expense" /\ store[e].amount.neg
          /\ CentsOf(store[e].amount.mag) = 50

\* C17: a stored transaction has a creditCardId only if its paymentMethod is
\* creditCard.
C17_CardOnlyWithCreditCard ==
    \A id \in DOMAIN store :
        "creditCardId" \in DOMAIN store[id] =>
            /\ "paymentMethod" \in DOMAIN store[id]
            /\ store[id].paymentMethod = "creditCard"

\* C18: among the stored transactions that share a groupId exactly one has
\* isOriginal = true.
C18_OneOriginalPerGroup ==
    \A id \in DOMAIN store :
        "groupId" \in DOMAIN store[id] =>
            Cardinality({j \in Members(store, store[id].groupId) :
                            "isOriginal" \in DOMAIN store[j] /\ store[j].isOriginal}) = 1

\* C19: updateTransaction(id, values) leaves every transaction but the one
\* with that id as it was, and leaves the groupId and the isOriginal of that
\* one as they were, present or absent.
C19_UpdateFrame ==
    [][UpdateStep =>
          LET id == ops'.last.target
          IN  /\ DOMAIN store' = DOMAIN store
              /\ \A j \in DOMAIN store \ {id} : store'[j] = store[j]
              /\ id \in DOMAIN store =>
                    \A k \in {"groupId", "isOriginal"} :
                        /\ (k \in DOMAIN store'[id]) = (k \in DOMAIN store[id])
                        /\ k \in DOMAIN store[id] => store'[id][k] = store[id][k]]_vars

\* C19 witness: the first installment has been updated alone, into the
\* category outros, and is still the original of its group; the second
\* installment is as it was written
C19_Witness ==
    /\ ops.last.kind = "updateTransaction" /\ ops.last.status = "committed"
    /\ ops.last.target = 1
    /\ {1, 2} \subseteq DOMAIN store
    /\ store[1].category = "outros" /\ store[1].description = <<"compra (1/2)">>
    /\ store[1].groupId = "g1" /\ store[1].isOriginal
    /\ store[2].category = "cat1" /\ store[2].description = <<"compra", 2, 2>>
    /\ store[2].groupId = "g1" /\ ~store[2].isOriginal

\* C20: deleteTransaction(id) removes the transaction with that id and leaves
\* every other stored transaction, the ones of its group too, as it was.
C20_DeleteFrame ==
    [][deleted' # deleted =>
          \E id \in DOMAIN store :
              /\ deleted' = deleted \cup {id}
              /\ DOMAIN store' = DOMAIN store \ {id}
              /\ \A j \in DOMAIN store' : store'[j] = store[j]]_vars

\* C20 witness: the first installment has been deleted and the second one is
\* stored as it was written
C20_Witness ==
    /\ deleted = {1}
    /\ 1 \notin DOMAIN store
    /\ 2 \in DOMAIN store
    /\ store[2] = BatchWrites(StoredPurchase)[2]

(***************************************************************************)
(* Properties of the calls as requests: validation, retries, notifications  *)
(***************************************************************************)
\* mode parameters the specification calls bad: a count below 1, a recurring
\* end date not after the start date, a recurring or installment request of
\* type income
BadModeParameters(values) ==
    \/ values.installments < 1
    \/ /\ values.isRecurring
       /\ values.recurringEndDate # UndefinedDate
       /\ DateLE(values.recurringEndDate, values.date)
    \/ values.type = "income" /\ (values.isRecurring \/ values.installments > 1)

C25_RetryIdempotent ==
    [][\A c \in 1..Len(calls) :
          /\ calls[c].status = "pending"
          /\ calls'[c].status = "committed"
          /\ \E d \in Committed : calls[d].values = calls[c].values /\ AllPresent(d)
          => store' = store]_vars

\* the titles of the toasts addTransaction shows for a success
SuccessTitles ==
    {"Despesa recorrente adicionada!", "Parcelas adicionadas!", "Transacao adicionada!"}

\* C27: a call of addTransaction has shown a success toast only if its commit
\* has succeeded, and never shows both a success toast and 'Erro ao salvar'.
C27_SuccessOnlyAfterCommit ==
    \A c \in 1..Len(calls) :
        (Ids(calls[c].toasts) \cap SuccessTitles # {}) =>
            /\ calls[c].status = "committed"
            /\ "Erro ao salvar" \notin Ids(calls[c].toasts)

\* C30: every transaction a recurring submission has written is stored with
\* the paymentMethod and the creditCardId of the submission.
C30_RecurringKeepsPayment ==
    \A c \in Committed :
        AsksRecurring(calls[c].values) =>
            \A k \in Present(c) :
                /\ Field(Written(c, k), "paymentMethod") = calls[c].values.paymentMethod
                /\ Field(Written(c, k), "creditCardId") = calls[c].values.creditCardId

(***************************************************************************)
(* Properties of the dashboard                                             *)
(***************************************************************************)
\* a signed number in cents
SignedCents(x) == IF x.neg THEN 0 - CentsOf(x.mag) ELSE CentsOf(x.mag)

\* the sum in cents of the amounts of the first n transactions of a list
\* that are of one of the given types
RECURSIVE SumOfAmounts(_, _, _)
SumOfAmounts(list, n, types) ==
    IF n = 0 THEN 0
    ELSE SumOfAmounts(list, n - 1, types)
            + (IF list[n].type \in types THEN SignedCents(list[n].amount) ELSE 0)

\* C28: in every month the dashboard's total expense is the sum of the
\* amounts of the month's expense transactions and its balance is the sum of
\* the amounts of all the month's transactions, whatever their payment method.
C28_TotalsCoverEveryTransaction ==
    \A currentMonth \in CurrentMonths :
        LET monthly == MonthlyTransactions(currentMonth)
            totals  == FinalTotals(currentMonth)
        IN  /\ SignedCents(totals.totalExpense)
                  = SumOfAmounts(monthly, Len(monthly), {"expense"})
            /\ SignedCents(totals.balance)
                  = SumOfAmounts(monthly, Len(monthly), {"income", "expense"})

\* C24: a recurring submission whose end date is more than 600 months after
\* its start date fails with an InvalidRange error: no list of transactions
\* is generated for it, no batch of it is in flight or committed, and none
\* of its transactions is stored.
C24_HorizonRejected ==
    \A c \in 1..Len(calls) :
        LET values == calls[c].values
        IN  /\ AsksRecurring(values)
            /\ DateLT(PlusMonths(values.date, 600), values.recurringEndDate)
            => /\ calls[c].list = <<>>
               /\ calls[c].status \notin {"pending", "committed"}
               /\ Ids(calls[c].ids) \cap DOMAIN store = {}

(***************************************************************************)
(* Properties of the group-edit dialog                                     *)
(***************************************************************************)
\* C21: a call of updateTransactionGroup whose query returned no transaction
\* is not an error: its batch can commit, and its commit ends the call as
\* committed and leaves the stored transactions as they were.
C21_UnmatchedGroupIsNoOp ==
    /\ [](\A op \in ops.pending :
             op.kind = "updateTransactionGroup" /\ op.seen = {}
                => BatchCanCommit(store, op.seen))
    /\ [][\A op \in ops.pending :
             EndStep(op, "updateTransactionGroup", "committed") /\ op.seen = {}
                => store' = store]_vars

\* C21 witness: the only member of the group was deleted while still listed,
\* the group update made from its row has found nothing and has committed,
\* and the other transaction is stored as it was
C21_Witness ==
    /\ ops.last.kind = "updateTransactionGroup" /\ ops.last.status = "committed"
    /\ ops.last.target = "g1" /\ ops.last.seen = {}
    /\ deleted = {1}
    /\ store = BatchWrites(StoredSingle)

\* C22: submitting the form of a transaction of a group opens the group-edit
\* dialog and makes no call and no write; a call for the transaction being
\* edited is made only from the open dialog, and it is one call:
\* updateTransaction of that transaction or updateTransactionGroup of its
\* group, never both.
C22_GroupEditAsksFirst ==
    [][/\ ~ui.isGroupEditDialogOpen /\ ui'.isGroupEditDialogOpen
            => store' = store /\ ops' = ops /\ calls' = calls
       /\ ops'.started # ops.started /\ "groupId" \in DOMAIN ui.editingTransaction
            => /\ ui.isGroupEditDialogOpen
               /\ ops'.started = ops.started + 1
               /\ \/ /\ ops'.pending = ops.pending
                     /\ ops'.last.n = ops'.started
                     /\ ops'.last.kind = "updateTransaction"
                     /\ ops'.last.target = ui.editingTransaction.id
                  \/ /\ ops'.last = ops.last
                     /\ \E op \in ops'.pending :
                           /\ ops'.pending = ops.pending \cup {op}
                           /\ op \notin ops.pending
                           /\ op.n = ops'.started
                           /\ op.kind = "updateTransactionGroup"
                           /\ op.target = ui.editingTransaction.groupId]_vars

\* C22 witness: the recurring expense was edited twice; the first time the
\* user picked only this one, and its updateTransaction has committed; the
\* second time the user picked all, and the group update is in flight
C22_Witness ==
    /\ ops.started = 2
    /\ ops.last.n = 1 /\ ops.last.kind = "updateTransaction"
    /\ ops.last.target = 1 /\ ops.last.status = "committed"
    /\ \E op \in ops.pending :
          /\ op.n = 2 /\ op.kind = "updateTransactionGroup" /\ op.target = "g1"
          /\ ui.confirming = {2}
    /\ ui.isGroupEditDialogOpen /\ ui.isDialogOpen

(***************************************************************************)
(* Properties of the providers                                             *)
(***************************************************************************)
\* C26: while no user is signed in the lists of the transaction, credit-card
\* and future-expense providers are empty, and a call of one of their
\* functions made then returns at once: it writes to no collection and
\* leaves no write in flight.
C26_SignedOutIsInert ==
    /\ [](~user => transactions = <<>> /\ creditCards = {} /\ futureExpenses = {})
    /\ [][~user /\ (ops'.started # ops.started \/ Len(calls') # Len(calls))
            => /\ store' = store
               /\ futureStore' = futureStore
               /\ cardStore' = cardStore
               /\ ops'.pending = ops.pending
               /\ ops'.started # ops.started => ops'.last.status = "returned"
               /\ Len(calls') # Len(calls) =>
                     /\ calls'[Len(calls')].status = "unauthenticated"
                     /\ calls'[Len(calls')].ids = <<>>]_vars

\* C26 witness: the user has signed out; addTransaction and two calls more,
\* the last one deleteCreditCard, were made since and have returned; the
\* three collections hold what they held and the three lists are empty
C26_Witness ==
    /\ ~user
    /\ Len(calls) = 2 /\ calls[2].status = "unauthenticated"
    /\ ops.started = 2 /\ ops.pending = {}
    /\ ops.last.kind = "deleteCreditCard" /\ ops.last.status = "returned"
    /\ store = BatchWrites(StoredRecurring)
    /\ futureStore = StoredBills /\ cardStore = StoredCards
    /\ transactions = <<>> /\ creditCards = {} /\ futureExpenses = {}

\* C29: a future expense marked as paid is not lost: while the transaction
\* dialog it has pre-filled is on screen, or was closed without saving, the
\* future expense is still stored unless a transaction recording its payment
\* is stored.
C29_PaidBillNotLost ==
    ui.isTransactionModalOpen =>
        \/ \E id \in DOMAIN futureStore :
              /\ futureStore[id].description = ui.transactionDefaults.description
              /\ futureStore[id].amount = ui.transactionDefaults.amount
        \/ \E id \in DOMAIN store :
              /\ store[id].description = <<ui.transactionDefaults.description>>
              /\ store[id].amount = Negate(ui.transactionDefaults.amount)

====
